---------------------------- MODULE Spec2Model ----------------------------
(***************************************************************************)
(* Model of the NESCO meter helper: the backend (src/backend/app.py), that  *)
(* is the users, meters and balance_history tables and the HTTP handlers   *)
(* that read and write them, and the Telegram bot (src/backend/bot.py),    *)
(* that is its two conversations and the scratch they keep per user.       *)
(*                                                                         *)
(* Conventions.                                                            *)
(*  - Python None is the empty sequence, a present value v is <<v>>.       *)
(*  - Balances and thresholds are floats in the code; here they are        *)
(*    integers counting tenths of a BDT (120.5 BDT is 1205).               *)
(*  - Time is an integer count of half days, so timedelta(days=1) is Day.  *)
(*    A request reads the clock strictly after the previous request        *)
(*    returned; the timestamps that one request served alone writes are    *)
(*    collapsed onto its first clock read.                                 *)
(***************************************************************************)
EXTENDS Integers, Sequences, FiniteSets, TLC

VARIABLES
    users,          \* table users: telegram_user_id -> row
    meters,         \* table meters: id -> row (committed rows)
    history,        \* table balance_history (committed rows), in commit order
    nextUserId,     \* users.id sequence
    nextMeterId,    \* meters.id sequence
    nextHistoryId,  \* balance_history.id sequence
    clock,          \* the last value datetime.utcnow() returned
    resp,           \* the last request served: whose it was, its reply, and
                    \* the calls it made to scrape_nesco_balance
    sess,           \* db.session of each request being served concurrently
    conv,           \* bot: state of each ConversationHandler, per user
    user_data,      \* bot: context.user_data, per user
    sent            \* bot: what the last update handled made the bot do

vars == <<users, meters, history, nextUserId, nextMeterId, nextHistoryId,
          clock, resp, sess, conv, user_data, sent>>

(* The state of the bot process *)
botvars == <<conv, user_data, sent>>

-----------------------------------------------------------------------------
(* Bounds of the model *)

MaxTime == 4
MaxMeters == 2
MaxHistory == 3

(* Program constants *)

Day == 2
DefaultMinBalance == 500

-----------------------------------------------------------------------------
(* Input domains *)

TgUsers == {101, 102}
MeterNumbers == {"31041051783", "42"}
MeterNames == {"Home"}
CoarseBalances == {300, 950}
ScenarioBalances == {800, 950, 1205}
MinBalanceInputs == {-50, 0, 950}
ScrapeErrors == {"HTTP 500"}
Elapsed == 1 .. (Day + 1)
MeterIds == 1 .. MaxMeters
Workers == {1, 2}

None == <<>>
Some(v) == <<v>>

(* scrape_nesco_balance never touches the database: it is an oracle that   *)
(* answers with a balance drawn from bs or with one of its error strings.  *)
ScrapeResults(bs) ==
    {[success |-> TRUE, balance |-> Some(b), error |-> ""] : b \in bs}
    \cup {[success |-> FALSE, balance |-> None, error |-> e] : e \in ScrapeErrors}

-----------------------------------------------------------------------------
(* Rows *)

NewUser(id) == [id |-> id, daily_reminder_enabled |-> TRUE]

(* A Meter row built without the verified balance, as the column defaults  *)
(* alone would leave it.                                                   *)
NewMeterWithoutBalance(uid, number, name, balance, now) ==
    [user_id |-> uid, meter_number |-> number, meter_name |-> name,
     min_balance |-> DefaultMinBalance,
     last_balance |-> None, last_checked |-> None]

NewMeter(uid, number, name, balance, now) ==
    [user_id |-> uid, meter_number |-> number, meter_name |-> name,
     min_balance |-> DefaultMinBalance,
     last_balance |-> Some(balance), last_checked |-> Some(now)]

NewHistory(id, mid, balance, now) ==
    [id |-> id, meter_id |-> mid, balance |-> balance, recorded_at |-> now]

(* Meter.query.filter_by(user_id=..., meter_number=...) *)
MetersByNumber(ms, uid, number) ==
    {m \in DOMAIN ms : ms[m].user_id = uid /\ ms[m].meter_number = number}

(* user.meters *)
MetersOf(ms, uid) == {m \in DOMAIN ms : ms[m].user_id = uid}

(* BalanceHistory rows of one meter, as positions in the table *)
ReadingsOf(hs, mid) == {i \in 1 .. Len(hs) : hs[i].meter_id = mid}

-----------------------------------------------------------------------------
(* Replies.  tg, number and meter_id are the request's telegram_user_id,    *)
(* meter_number and meter_id; scraped lists the calls the handler made to  *)
(* scrape_nesco_balance, in call order.                                    *)

Scraped(number, scrape) == [number |-> number, success |-> scrape.success]

NoResp ==
    [op |-> "none", tg |-> 0, status |-> 0, success |-> FALSE, error |-> "",
     message |-> "", number |-> "", meter_id |-> 0, balance |-> None,
     results |-> <<>>, scraped |-> <<>>]

Reply(op, tg, status, success, error, message) ==
    [NoResp EXCEPT !.op = op, !.tg = tg, !.status = status,
                   !.success = success, !.error = error, !.message = message]

(* The db.session of a worker with no request in it.  While the worker      *)
(* serves check-balances: order is user.meters as loaded, i the position   *)
(* of the loop, loaded the Meter rows as the session read them, dirty the  *)
(* attribute changes <<meter, column, value>> not yet flushed, added the   *)
(* BalanceHistory objects not yet flushed, written the column values its   *)
(* transaction has UPDATEd, locked the meters rows that UPDATE holds, and  *)
(* flushed the rows its transaction has INSERTed.                          *)
NoSession ==
    [pc |-> "idle", tg |-> 0, order |-> <<>>, i |-> 0, yesterday |-> 0,
     loaded |-> <<>>, dirty |-> {}, added |-> <<>>, written |-> {},
     locked |-> {}, flushed |-> <<>>, results |-> <<>>, scraped |-> <<>>,
     number |-> "", name |-> "", user |-> None]

(* bot.py line 15 and ConversationHandler.END: the states of the two        *)
(* conversations.  END is also the state of a conversation never entered.  *)
END == "END"
ADD_METER_NUMBER == "ADD_METER_NUMBER"
ADD_METER_NAME == "ADD_METER_NAME"
SET_MIN_METER == "SET_MIN_METER"
SET_MIN_AMOUNT == "SET_MIN_AMOUNT"

(* The two ConversationHandlers of main(), each with its own state per user *)
NoConversation == [add |-> END, minbalance |-> END]

(* context.user_data of a user, empty: one field per key the conversations  *)
(* write, None when the key is absent.                                     *)
NoUserData ==
    [meter_number |-> None, minbalance_meters |-> None, selected_meter |-> None]

(* What handling one update did: the user and the update, the callback     *)
(* that ran ("" when no handler took the update), whether it raised, the   *)
(* message it replied with and the requests it sent to the backend.        *)
NoSent ==
    [tg |-> 0, update |-> [command |-> "", text |-> <<>>], handler |-> "",
     raised |-> FALSE, reply |-> "", calls |-> <<>>]

Init ==
    /\ conv = [tg \in TgUsers |-> NoConversation]
    /\ user_data = [tg \in TgUsers |-> NoUserData]
    /\ sent = NoSent
    /\ users = <<>>
    /\ meters = <<>>
    /\ history = <<>>
    /\ nextUserId = 1
    /\ nextMeterId = 1
    /\ nextHistoryId = 1
    /\ clock = 0
    /\ resp = NoResp
    /\ sess = [w \in Workers |-> NoSession]

-----------------------------------------------------------------------------
(* POST /webhook/telegram *)

TelegramWebhook(tg, command) ==
    /\ IF command = "start"
       THEN /\ IF tg \in DOMAIN users
               THEN UNCHANGED <<users, nextUserId>>
               ELSE /\ users' = users @@ (tg :> NewUser(nextUserId))
                    /\ nextUserId' = nextUserId + 1
            /\ resp' = Reply("webhook", tg, 200, TRUE, "", "Welcome")
       ELSE /\ UNCHANGED <<users, nextUserId>>
            /\ resp' = Reply("webhook", tg, 200, FALSE, "Unknown command", "")
    /\ UNCHANGED <<meters, history, nextMeterId, nextHistoryId, clock, sess>>

-----------------------------------------------------------------------------
(* POST /api/add-meter *)

(* lines 119-123: the user row is looked up, and created and committed when *)
(* absent, before anything else is checked.                                *)
GetOrCreateUser(us, tg, uid) ==
    IF tg \in DOMAIN us THEN us ELSE us @@ (tg :> NewUser(uid))

(* lines 116-117 *)
AddMeterMissingFields(tg, number) ==
    /\ resp' = [Reply("add_meter", tg, 400, FALSE, "Missing required fields", "")
                   EXCEPT !.number = number]
    /\ UNCHANGED <<users, nextUserId, meters, history, nextMeterId,
                   nextHistoryId, clock>>

(* A duplicate taken as a re-verification: the existing meter gets another *)
(* reading and the call succeeds.                                          *)
AddMeterDuplicateMerged(tg, number) ==
    LET m == CHOOSE m \in MetersByNumber(meters, users'[tg].id, number) : TRUE
    IN /\ Len(history) < MaxHistory
       /\ history' = Append(history,
              NewHistory(nextHistoryId, m, meters[m].last_balance[1], clock))
       /\ nextHistoryId' = nextHistoryId + 1
       /\ resp' = [Reply("add_meter", tg, 200, TRUE, "", "Added meter")
                      EXCEPT !.number = number,
                             !.balance = meters[m].last_balance]
       /\ UNCHANGED <<meters, nextMeterId, clock>>

(* lines 127-128 *)
AddMeterDuplicate(tg, number) ==
    /\ resp' = [Reply("add_meter", tg, 400, FALSE, "Meter already exists", "")
                   EXCEPT !.number = number]
    /\ UNCHANGED <<meters, history, nextMeterId, nextHistoryId, clock>>

(* A failed verification that leaves a Meter row without balance behind.   *)
AddMeterUnverifiedKeepsMeter(tg, number, scrape) ==
    /\ nextMeterId <= MaxMeters
    /\ meters' = meters @@
           (nextMeterId :> [NewMeter(users'[tg].id, number, number, 0, clock)
                               EXCEPT !.last_balance = None, !.last_checked = None])
    /\ nextMeterId' = nextMeterId + 1
    /\ resp' = [Reply("add_meter", tg, 400, FALSE, "Cannot verify meter", scrape.error)
                   EXCEPT !.number = number,
                          !.scraped = <<Scraped(number, scrape)>>]
    /\ UNCHANGED <<history, nextHistoryId, clock>>

(* lines 131-133 *)
AddMeterUnverified(tg, number, scrape) ==
    /\ resp' = [Reply("add_meter", tg, 400, FALSE, "Cannot verify meter", scrape.error)
                   EXCEPT !.number = number,
                          !.scraped = <<Scraped(number, scrape)>>]
    /\ UNCHANGED <<meters, history, nextMeterId, nextHistoryId, clock>>

(* A registration that commits the Meter row alone, without its first      *)
(* BalanceHistory row.                                                     *)
AddMeterCreateWithoutReading(tg, uid, number, name, scrape, now) ==
    /\ nextMeterId <= MaxMeters
    /\ now <= MaxTime
    /\ meters' = meters @@
           (nextMeterId :> NewMeter(uid, number, name, scrape.balance[1], now))
    /\ nextMeterId' = nextMeterId + 1
    /\ clock' = now
    /\ resp' = [Reply("add_meter", tg, 200, TRUE, "", "Added meter")
                   EXCEPT !.number = number,
                          !.balance = scrape.balance,
                          !.scraped = <<Scraped(number, scrape)>>]
    /\ UNCHANGED <<history, nextHistoryId>>

(* lines 131, 135-152: the Meter row and its first BalanceHistory row are   *)
(* added to the session and committed together.                            *)
AddMeterCreate(tg, uid, number, name, scrape, now) ==
    /\ nextMeterId <= MaxMeters
    /\ Len(history) < MaxHistory
    /\ now <= MaxTime
    /\ meters' = meters @@
           (nextMeterId :> NewMeter(uid, number, name, scrape.balance[1], now))
    /\ history' = Append(history,
           NewHistory(nextHistoryId, nextMeterId, scrape.balance[1], now))
    /\ nextMeterId' = nextMeterId + 1
    /\ nextHistoryId' = nextHistoryId + 1
    /\ clock' = now
    /\ resp' = [Reply("add_meter", tg, 200, TRUE, "", "Added meter")
                   EXCEPT !.number = number,
                          !.balance = scrape.balance,
                          !.scraped = <<Scraped(number, scrape)>>]

AddMeter(tg, number, name, scrape, e) ==
    /\ IF tg = 0 \/ number = "" \/ name = ""
       THEN AddMeterMissingFields(tg, number)
       ELSE LET us == GetOrCreateUser(users, tg, nextUserId)
                uid == us[tg].id
            IN /\ users' = us
               /\ nextUserId' = IF tg \in DOMAIN users THEN nextUserId
                                                      ELSE nextUserId + 1
               /\ IF MetersByNumber(meters, uid, number) # {}
                  THEN AddMeterDuplicate(tg, number)
                  ELSE IF ~scrape.success
                       THEN AddMeterUnverified(tg, number, scrape)
                       ELSE AddMeterCreate(tg, uid, number, name, scrape, clock + e)
    /\ UNCHANGED sess

-----------------------------------------------------------------------------
(* POST /api/check-balances *)

(* The lookup with the bound of its filter made strict: a row recorded     *)
(* exactly one day before the request is not found.                       *)
YesterdayRecordAfter(hs, mid, yesterday) ==
    LET found == {i \in ReadingsOf(hs, mid) : hs[i].recorded_at > yesterday}
    IN {i \in found : \A j \in found :
            \/ hs[j].recorded_at < hs[i].recorded_at
            \/ hs[j].recorded_at = hs[i].recorded_at /\ hs[j].id <= hs[i].id}

(* lines 196-199: the newest BalanceHistory row of the meter among those    *)
(* recorded at or after yesterday (the filter has no upper bound), as a    *)
(* set of positions in hs: empty when .first() returns None.  Rows written *)
(* within one tick of the model's clock keep their true order, that of     *)
(* their ids.                                                              *)
YesterdayRecord(hs, mid, yesterday) ==
    LET found == {i \in ReadingsOf(hs, mid) : hs[i].recorded_at >= yesterday}
    IN {i \in found : \A j \in found :
            \/ hs[j].recorded_at < hs[i].recorded_at
            \/ hs[j].recorded_at = hs[i].recorded_at /\ hs[j].id <= hs[i].id}

(* The usage with its subtraction turned around. *)
YesterdayUsageReversed(hs, mid, yesterday, current_balance) ==
    LET yesterday_record == YesterdayRecord(hs, mid, yesterday)
    IN IF yesterday_record = {}
       THEN None
       ELSE Some(current_balance - hs[CHOOSE i \in yesterday_record : TRUE].balance)

(* lines 201-203 *)
YesterdayUsage(hs, mid, yesterday, current_balance) ==
    LET yesterday_record == YesterdayRecord(hs, mid, yesterday)
    IN IF yesterday_record = {}
       THEN None
       ELSE Some(hs[CHOOSE i \in yesterday_record : TRUE].balance - current_balance)

(* The alert taken against the column default instead of the stored value. *)
AlertAgainstDefault(current_balance, meter) == current_balance < DefaultMinBalance

(* line 214 *)
Alert(current_balance, meter) == current_balance < meter.min_balance

(* lines 216-223 *)
ResultOk(meter, current_balance, yesterday_usage) ==
    [name |-> meter.meter_name, number |-> meter.meter_number, ok |-> TRUE,
     balance |-> Some(current_balance), yesterday_usage |-> yesterday_usage,
     alert |-> Alert(current_balance, meter),
     min_balance |-> Some(meter.min_balance), error |-> ""]

(* lines 225-229 *)
ResultError(meter, error) ==
    [name |-> meter.meter_name, number |-> meter.meter_number, ok |-> FALSE,
     balance |-> None, yesterday_usage |-> None, alert |-> FALSE,
     min_balance |-> None, error |-> error]

(* lines 205-207 *)
UpdateMeter(ms, mid, current_balance, now) ==
    [ms EXCEPT ![mid].last_balance = Some(current_balance),
               ![mid].last_checked = Some(now)]

(* A reading kept only when it is below the default threshold. *)
AddHistoryWhenLow(hs, id, mid, current_balance, now) ==
    IF current_balance < DefaultMinBalance
    THEN Append(hs, NewHistory(id, mid, current_balance, now))
    ELSE hs

(* A reading that takes the place of the older readings of its meter. *)
AddHistoryInPlace(hs, id, mid, current_balance, now) ==
    Append(SelectSeq(hs, LAMBDA h : h.meter_id # mid),
           NewHistory(id, mid, current_balance, now))

(* lines 209-211 *)
AddHistory(hs, id, mid, current_balance, now) ==
    Append(hs, NewHistory(id, mid, current_balance, now))

(* A pass of the loop that stamps last_checked also when the scrape fails.  *)
RefreshMeterStampsFailure(st, mid, scrape, yesterday, now) ==
    IF scrape.success
    THEN LET current_balance == scrape.balance[1]
             usage == YesterdayUsage(st.history, mid, yesterday, current_balance)
             ms == UpdateMeter(st.meters, mid, current_balance, now)
         IN [meters |-> ms,
             history |-> Append(st.history,
                 NewHistory(st.nextHistoryId, mid, current_balance, now)),
             nextHistoryId |-> st.nextHistoryId + 1,
             results |-> Append(st.results, ResultOk(ms[mid], current_balance, usage))]
    ELSE [st EXCEPT !.meters[mid].last_checked = Some(now),
                    !.results = Append(@, ResultError(st.meters[mid], scrape.error))]

(* One pass of the loop body, lines 189-229, of a request served alone, on  *)
(* the tables st.meters and st.history; st.results is the list built so    *)
(* far and st.nextHistoryId the next id of balance_history.                *)
RefreshMeter(st, mid, scrape, yesterday, now) ==
    IF scrape.success
    THEN LET current_balance == scrape.balance[1]
             usage == YesterdayUsage(st.history, mid, yesterday, current_balance)
             ms == UpdateMeter(st.meters, mid, current_balance, now)
         IN [meters |-> ms,
             history |-> AddHistory(st.history, st.nextHistoryId, mid,
                                    current_balance, now),
             nextHistoryId |-> st.nextHistoryId + 1,
             results |-> Append(st.results, ResultOk(ms[mid], current_balance, usage))]
    ELSE [st EXCEPT !.results = Append(@, ResultError(st.meters[mid], scrape.error))]

(* The loop of line 188 over user.meters in the order the relationship      *)
(* loaded them, from position i on.                                        *)
RECURSIVE Sweep(_, _, _, _, _, _)
Sweep(st, order, i, scrapes, yesterday, now) ==
    IF i > Len(order)
    THEN st
    ELSE Sweep(RefreshMeter(st, order[i], scrapes[order[i]], yesterday, now),
               order, i + 1, scrapes, yesterday, now)

(* user.meters is loaded by a SELECT without ORDER BY: the rows ids may     *)
(* come in any order.                                                      *)
Orders(ids) ==
    {o \in [1 .. Cardinality(ids) -> ids] : \A m \in ids : \E i \in DOMAIN o : o[i] = m}

(* lines 181-183 *)
CheckBalancesNone(tg) ==
    /\ resp' = Reply("check_balances", tg, 404, FALSE, "No meters found", "")
    /\ UNCHANGED <<users, meters, history, nextUserId, nextMeterId,
                   nextHistoryId, clock>>

(* lines 185-233 *)
CheckBalancesSweep(tg, order, scrapes, now) ==
    LET done == Sweep([meters |-> meters, history |-> history,
                       nextHistoryId |-> nextHistoryId, results |-> <<>>],
                      order, 1, scrapes, now - Day, now)
    IN /\ now <= MaxTime
       /\ Len(done.history) <= MaxHistory
       /\ meters' = done.meters
       /\ history' = done.history
       /\ nextHistoryId' = done.nextHistoryId
       /\ clock' = now
       /\ resp' = [Reply("check_balances", tg, 200, TRUE, "", "")
                      EXCEPT !.results = done.results,
                             !.scraped = [i \in DOMAIN order |->
                                 Scraped(meters[order[i]].meter_number,
                                         scrapes[order[i]])]]
       /\ UNCHANGED <<users, nextUserId, nextMeterId>>

CheckBalances(tg, bs, e) ==
    /\ IF tg \notin DOMAIN users \/ MetersOf(meters, users[tg].id) = {}
       THEN CheckBalancesNone(tg)
       ELSE LET ids == MetersOf(meters, users[tg].id)
            IN \E order \in Orders(ids) : \E scrapes \in [ids -> ScrapeResults(bs)] :
                   CheckBalancesSweep(tg, order, scrapes, clock + e)
    /\ UNCHANGED sess

-----------------------------------------------------------------------------
(* POST /api/remove-meter *)

(* A removal that deletes the Meter row and leaves its BalanceHistory rows. *)
RemoveMeterKeepsHistory(tg, meter_id) ==
    /\ IF tg \notin DOMAIN users
       THEN /\ resp' = [Reply("remove_meter", tg, 404, FALSE, "User not found", "")
                           EXCEPT !.meter_id = meter_id]
            /\ UNCHANGED <<meters, history>>
       ELSE IF meter_id \notin MetersOf(meters, users[tg].id)
       THEN /\ resp' = [Reply("remove_meter", tg, 404, FALSE, "Meter not found", "")
                           EXCEPT !.meter_id = meter_id]
            /\ UNCHANGED <<meters, history>>
       ELSE /\ meters' = [m \in DOMAIN meters \ {meter_id} |-> meters[m]]
            /\ UNCHANGED history
            /\ resp' = [Reply("remove_meter", tg, 200, TRUE, "", "Removed meter")
                           EXCEPT !.meter_id = meter_id]
    /\ UNCHANGED <<users, nextUserId, nextMeterId, nextHistoryId, clock, sess>>

(* lines 235-254.  db.session.delete(meter) deletes, by the cascade of the  *)
(* relationship Meter.history (line 41), the BalanceHistory rows of the    *)
(* meter in the same commit.                                               *)
RemoveMeter(tg, meter_id) ==
    /\ IF tg \notin DOMAIN users
       THEN /\ resp' = [Reply("remove_meter", tg, 404, FALSE, "User not found", "")
                           EXCEPT !.meter_id = meter_id]
            /\ UNCHANGED <<meters, history>>
       ELSE IF meter_id \notin MetersOf(meters, users[tg].id)
       THEN /\ resp' = [Reply("remove_meter", tg, 404, FALSE, "Meter not found", "")
                           EXCEPT !.meter_id = meter_id]
            /\ UNCHANGED <<meters, history>>
       ELSE /\ meters' = [m \in DOMAIN meters \ {meter_id} |-> meters[m]]
            /\ history' = SelectSeq(history, LAMBDA h : h.meter_id # meter_id)
            /\ resp' = [Reply("remove_meter", tg, 200, TRUE, "", "Removed meter")
                           EXCEPT !.meter_id = meter_id]
    /\ UNCHANGED <<users, nextUserId, nextMeterId, nextHistoryId, clock, sess>>

-----------------------------------------------------------------------------
(* POST /api/set-min-balance *)

(* line 272: float(min_balance) is stored whatever its sign *)
StoreMinBalance(ms, meter_id, min_balance) ==
    [ms EXCEPT ![meter_id].min_balance = min_balance]

(* A set-min-balance that looks the meter up by its id alone. *)
SetMinBalanceOfAnyMeter(tg, meter_id, min_balance) ==
    /\ IF tg \notin DOMAIN users
       THEN /\ resp' = [Reply("set_min_balance", tg, 404, FALSE, "User not found", "")
                           EXCEPT !.meter_id = meter_id]
            /\ UNCHANGED meters
       ELSE IF meter_id \notin DOMAIN meters
       THEN /\ resp' = [Reply("set_min_balance", tg, 404, FALSE, "Meter not found", "")
                           EXCEPT !.meter_id = meter_id]
            /\ UNCHANGED meters
       ELSE /\ meters' = StoreMinBalance(meters, meter_id, min_balance)
            /\ resp' = [Reply("set_min_balance", tg, 200, TRUE, "", "Min balance set")
                           EXCEPT !.number = meters[meter_id].meter_number,
                                  !.meter_id = meter_id,
                                  !.balance = Some(min_balance)]
    /\ UNCHANGED <<users, history, nextUserId, nextMeterId, nextHistoryId,
                   clock, sess>>

(* lines 256-275 *)
SetMinBalance(tg, meter_id, min_balance) ==
    /\ IF tg \notin DOMAIN users
       THEN /\ resp' = [Reply("set_min_balance", tg, 404, FALSE, "User not found", "")
                           EXCEPT !.meter_id = meter_id]
            /\ UNCHANGED meters
       ELSE IF meter_id \notin MetersOf(meters, users[tg].id)
       THEN /\ resp' = [Reply("set_min_balance", tg, 404, FALSE, "Meter not found", "")
                           EXCEPT !.meter_id = meter_id]
            /\ UNCHANGED meters
       ELSE /\ meters' = StoreMinBalance(meters, meter_id, min_balance)
            /\ resp' = [Reply("set_min_balance", tg, 200, TRUE, "", "Min balance set")
                           EXCEPT !.number = meters[meter_id].meter_number,
                                  !.meter_id = meter_id,
                                  !.balance = Some(min_balance)]
    /\ UNCHANGED <<users, history, nextUserId, nextMeterId, nextHistoryId,
                   clock, sess>>

-----------------------------------------------------------------------------
(* POST /api/toggle-reminder *)

(* A User built at line 285 is not flushed before line 288 reads it: its    *)
(* daily_reminder_enabled is still None there, and `not None` is True.      *)
ToggleReminder(tg) ==
    LET enabled == IF tg \in DOMAIN users
                   THEN ~users[tg].daily_reminder_enabled
                   ELSE TRUE
    IN /\ IF tg \in DOMAIN users
          THEN /\ users' = [users EXCEPT ![tg].daily_reminder_enabled = enabled]
               /\ UNCHANGED nextUserId
          ELSE /\ users' = users @@
                      (tg :> [NewUser(nextUserId) EXCEPT !.daily_reminder_enabled = enabled])
               /\ nextUserId' = nextUserId + 1
       /\ resp' = Reply("toggle_reminder", tg, 200, TRUE, "",
                        IF enabled THEN "Daily reminder enabled"
                                   ELSE "Daily reminder disabled")
       /\ UNCHANGED <<meters, history, nextMeterId, nextHistoryId, clock, sess>>

-----------------------------------------------------------------------------
(* The balance engine, requests served one at a time, each handler run to   *)
(* its return: several users register meters and sweep them.               *)

Next ==
    \/ \E tg \in TgUsers : \E number \in MeterNumbers : \E name \in MeterNames :
       \E scrape \in ScrapeResults(CoarseBalances) : \E e \in Elapsed :
           AddMeter(tg, number, name, scrape, e) /\ UNCHANGED botvars
    \/ \E tg \in TgUsers : \E e \in Elapsed :
           CheckBalances(tg, CoarseBalances, e) /\ UNCHANGED botvars

Spec == Init /\ [][Next]_vars

(* One user and one meter number followed closely: the balances of the      *)
(* documented scenario, and the thresholds set-min-balance stores.         *)

NextMeter ==
    \/ \E name \in MeterNames \cup {""} :
       \E scrape \in ScrapeResults(ScenarioBalances) : \E e \in Elapsed :
           AddMeter(101, "31041051783", name, scrape, e) /\ UNCHANGED botvars
    \/ \E e \in Elapsed :
           CheckBalances(101, ScenarioBalances, e) /\ UNCHANGED botvars
    \/ \E meter_id \in MeterIds : \E min_balance \in MinBalanceInputs :
           SetMinBalance(101, meter_id, min_balance) /\ UNCHANGED botvars

SpecMeter == Init /\ [][NextMeter]_vars

-----------------------------------------------------------------------------
(* POST /api/check-balances served by two workers at once.  Each worker has *)
(* its own db.session, that is its own transaction on the database of      *)
(* line 13, PostgreSQL at its default isolation level: a statement sees    *)
(* the rows committed before it and those of its own transaction, an       *)
(* UPDATE of a row waits for the transaction that holds the row, and the   *)
(* row is held until commit.  The handler takes no lock of its own.        *)

(* Time passes: datetime.utcnow() is read from the clock. *)
Tick ==
    /\ clock < MaxTime
    /\ clock' = clock + 1
    /\ UNCHANGED <<users, meters, history, nextUserId, nextMeterId,
                   nextHistoryId, resp, sess, botvars>>

(* lines 178-186: the user and user.meters are loaded into the session *)
CheckBegin(w, tg) ==
    /\ sess[w].pc = "idle"
    /\ IF tg \notin DOMAIN users \/ MetersOf(meters, users[tg].id) = {}
       THEN /\ resp' = Reply("check_balances", tg, 404, FALSE, "No meters found", "")
            /\ UNCHANGED sess
       ELSE LET ids == MetersOf(meters, users[tg].id)
            IN /\ \E order \in Orders(ids) :
                     sess' = [sess EXCEPT ![w] =
                                 [NoSession EXCEPT !.pc = "loop", !.tg = tg,
                                                   !.order = order, !.i = 1,
                                                   !.yesterday = clock - Day,
                                                   !.loaded = [m \in ids |-> meters[m]]]]
               /\ UNCHANGED resp
    /\ UNCHANGED <<users, meters, history, nextUserId, nextMeterId,
                   nextHistoryId, clock, botvars>>

(* lines 206-207 on the session's Meter object.  The unit of work records   *)
(* a net change only: a last_balance equal to the value the session loaded *)
(* is not written by the UPDATE; last_checked, a fresh utcnow(), always    *)
(* differs from the loaded one.                                            *)
SetBalance(s, m, current_balance, now) ==
    [s EXCEPT !.dirty = @ \cup {<<m, "last_checked", Some(now)>>}
                          \cup (IF s.loaded[m].last_balance # Some(current_balance)
                                THEN {<<m, "last_balance", Some(current_balance)>>}
                                ELSE {})]

(* The meters whose rows a flush of session s UPDATEs *)
DirtyMeters(s) == {t[1] : t \in s.dirty}

(* The UPDATEs of a flush of worker w go through once no other transaction  *)
(* holds one of their rows.                                                *)
CanFlush(w) ==
    \A v \in Workers \ {w} : sess[v].locked \cap DirtyMeters(sess[w]) = {}

(* session.flush(): UPDATE meters for the changed columns, then INSERT INTO *)
(* balance_history for the added objects, whose ids come from the sequence *)
(* and whose recorded_at is the column default utcnow() of line 48, taken  *)
(* when the INSERT runs.                                                   *)
Flushed(s, id, now) ==
    [s EXCEPT !.written = @ \cup s.dirty,
              !.locked = @ \cup DirtyMeters(s),
              !.dirty = {},
              !.flushed = @ \o [k \in 1 .. Len(s.added) |->
                                   NewHistory(id + k - 1, s.added[k].meter_id,
                                              s.added[k].balance, now)],
              !.added = <<>>]

(* A meters row after the committed UPDATEs in written *)
Written(row, m, written) ==
    LET value(col, old) ==
            IF \E t \in written : t[1] = m /\ t[2] = col
            THEN (CHOOSE t \in written : t[1] = m /\ t[2] = col)[3]
            ELSE old
    IN [row EXCEPT !.last_balance = value("last_balance", @),
                   !.last_checked = value("last_checked", @)]

(* Readings written and not yet committed by any session *)
InFlight ==
    LET n(w) == Len(sess[w].added) + Len(sess[w].flushed)
    IN n(1) + n(2)

(* lines 189-229, one pass of the loop.  The query of line 196 first        *)
(* flushes the session, and sees the committed rows and the session's own. *)
CheckMeter(w, scrape) ==
    LET s == sess[w]
        m == s.order[s.i]
    IN /\ s.pc = "loop"
       /\ s.i <= Len(s.order)
       /\ IF scrape.success
          THEN /\ CanFlush(w)
               /\ Len(history) + InFlight < MaxHistory
               /\ LET f == Flushed(s, nextHistoryId, clock)
                      current_balance == scrape.balance[1]
                      usage == YesterdayUsage(history \o f.flushed, m,
                                              s.yesterday, current_balance)
                      t == SetBalance(f, m, current_balance, clock)
                  IN sess' = [sess EXCEPT ![w] =
                         [t EXCEPT !.added = Append(@, [meter_id |-> m,
                                                        balance |-> current_balance]),
                                   !.results = Append(@, ResultOk(s.loaded[m],
                                                        current_balance, usage)),
                                   !.scraped = Append(@, Scraped(s.loaded[m].meter_number,
                                                                 scrape)),
                                   !.i = @ + 1]]
               /\ nextHistoryId' = nextHistoryId + Len(s.added)
          ELSE /\ sess' = [sess EXCEPT ![w] =
                         [s EXCEPT !.results = Append(@, ResultError(s.loaded[m],
                                                                     scrape.error)),
                                   !.scraped = Append(@, Scraped(s.loaded[m].meter_number,
                                                                 scrape)),
                                   !.i = @ + 1]]
               /\ UNCHANGED nextHistoryId
       /\ UNCHANGED <<users, meters, history, nextUserId, nextMeterId, clock,
                      resp, botvars>>

(* lines 231-233: db.session.commit() flushes what is left, makes the       *)
(* transaction's writes visible and releases its rows.                     *)
CheckCommit(w) ==
    LET s == sess[w]
    IN /\ s.pc = "loop"
       /\ s.i > Len(s.order)
       /\ CanFlush(w)
       /\ LET f == Flushed(s, nextHistoryId, clock)
          IN /\ Len(history) + Len(f.flushed) <= MaxHistory
             /\ meters' = [m \in DOMAIN meters |-> Written(meters[m], m, f.written)]
             /\ history' = history \o f.flushed
             /\ nextHistoryId' = nextHistoryId + Len(s.added)
             /\ resp' = [Reply("check_balances", s.tg, 200, TRUE, "", "")
                            EXCEPT !.results = s.results, !.scraped = s.scraped]
       /\ sess' = [sess EXCEPT ![w] = NoSession]
       /\ UNCHANGED <<users, nextUserId, nextMeterId, clock, botvars>>

NextConc ==
    \/ \E name \in MeterNames : \E scrape \in ScrapeResults(CoarseBalances) :
           AddMeter(101, "31041051783", name, scrape, 0) /\ UNCHANGED botvars
    \/ \E w \in Workers : CheckBegin(w, 101)
    \/ \E w \in Workers : \E scrape \in ScrapeResults(CoarseBalances) :
           CheckMeter(w, scrape)
    \/ \E w \in Workers : CheckCommit(w)
    \/ Tick

SpecConc == Init /\ [][NextConc]_vars

-----------------------------------------------------------------------------
(* C1.  After every add-meter call that succeeds, the caller has exactly    *)
(* one meter with the requested number, the adapter was called once, the   *)
(* meter's last_balance is the balance that call fetched, and the meter    *)
(* has exactly one reading, which carries that same balance.               *)
C1_AddMeterSnapshotAndFirstReading ==
    (resp.op = "add_meter" /\ resp.success) =>
        LET ms == MetersByNumber(meters, users[resp.tg].id, resp.number)
        IN /\ Len(resp.scraped) = 1
           /\ resp.balance # None
           /\ Cardinality(ms) = 1
           /\ \A m \in ms :
                 /\ meters[m].last_balance = resp.balance
                 /\ Cardinality(ReadingsOf(history, m)) = 1
                 /\ \A i \in ReadingsOf(history, m) :
                        history[i].balance = resp.balance[1]

(* A successful add-meter has just returned, by a user who now owns two     *)
(* meters.                                                                 *)
C1_Witness ==
    /\ resp.op = "add_meter"
    /\ resp.success
    /\ Cardinality(MetersOf(meters, users[resp.tg].id)) = 2

(* C2.  An add-meter call for a (user, number) pair that is already         *)
(* registered answers with the duplicate error, calls the adapter not at   *)
(* all, and leaves the meters and all readings as they were.               *)
C2_DuplicateRejectedWithoutEffect ==
    [][\A tg \in TgUsers : \A number \in MeterNumbers :
          ( /\ tg \in DOMAIN users
            /\ MetersByNumber(meters, users[tg].id, number) # {}
            /\ resp'.op = "add_meter" /\ resp'.tg = tg /\ resp'.number = number )
          => /\ resp'.status = 400
             /\ resp'.error = "Meter already exists"
             /\ resp'.scraped = <<>>
             /\ meters' = meters
             /\ history' = history]_vars

(* A duplicate has just been rejected while another user holds a meter of   *)
(* the same number.                                                        *)
C2_Witness ==
    /\ resp.op = "add_meter"
    /\ resp.error = "Meter already exists"
    /\ \E m, n \in DOMAIN meters :
          /\ meters[m].meter_number = meters[n].meter_number
          /\ meters[m].user_id # meters[n].user_id

(* C3 as stated.  When the adapter call of add-meter fails, the call        *)
(* answers that the meter cannot be verified and the users, meters and     *)
(* readings are what they were before the call.                            *)
C3_FailedVerificationChangesNothing ==
    [][\A tg \in TgUsers : \A number \in MeterNumbers :
          ( /\ resp'.op = "add_meter" /\ resp'.tg = tg /\ resp'.number = number
            /\ Len(resp'.scraped) = 1 /\ ~resp'.scraped[1].success )
          => /\ resp'.error = "Cannot verify meter"
             /\ users' = users
             /\ meters' = meters
             /\ history' = history]_vars

(* C3 amended.  When the adapter call of add-meter fails, the call answers  *)
(* that the meter cannot be verified and creates no meter and no reading;  *)
(* the only stored change is the caller's user row, created with its       *)
(* defaults when the caller had none.                                      *)
C3_FailedVerificationCreatesNoMeter ==
    [][\A tg \in TgUsers : \A number \in MeterNumbers :
          ( /\ resp'.op = "add_meter" /\ resp'.tg = tg /\ resp'.number = number
            /\ Len(resp'.scraped) = 1 /\ ~resp'.scraped[1].success )
          => /\ resp'.status = 400
             /\ resp'.error = "Cannot verify meter"
             /\ meters' = meters
             /\ history' = history
             /\ nextMeterId' = nextMeterId
             /\ DOMAIN users' = DOMAIN users \cup {tg}
             /\ \A u \in DOMAIN users : users'[u] = users[u]
             /\ tg \notin DOMAIN users => users'[tg] = NewUser(nextUserId)]_vars

(* A verification has just failed for a caller who owns no meter while      *)
(* another user's meter is stored.                                         *)
C3_Witness ==
    /\ resp.op = "add_meter"
    /\ resp.error = "Cannot verify meter"
    /\ MetersOf(meters, users[resp.tg].id) = {}
    /\ DOMAIN meters # {}

(* C4.  For every meter a check-balances sweep visits, the meter's         *)
(* readings grow by exactly one when its adapter call succeeds and by none *)
(* when it fails, whatever the alert.                                      *)
C4_OneReadingPerSuccessfulScrape ==
    [][(resp'.op = "check_balances" /\ resp'.success) =>
          LET ids == MetersOf(meters, users[resp'.tg].id)
          IN /\ Len(resp'.scraped) = Cardinality(ids)
             /\ \A m \in ids :
                   LET calls == {k \in DOMAIN resp'.scraped :
                                    resp'.scraped[k].number = meters[m].meter_number}
                   IN /\ Cardinality(calls) = 1
                      /\ \A k \in calls :
                            Cardinality(ReadingsOf(history', m)) =
                                Cardinality(ReadingsOf(history, m))
                                + (IF resp'.scraped[k].success THEN 1 ELSE 0)]_vars

(* A sweep has just returned with an alert raised for one meter and the     *)
(* adapter failing for another.                                            *)
C4_Witness ==
    /\ resp.op = "check_balances"
    /\ \E j, k \in DOMAIN resp.results :
          /\ resp.results[j].ok /\ resp.results[j].alert
          /\ ~resp.results[k].ok

(* C5.  In the reply of a sweep run at time now, a meter's yesterday_usage  *)
(* is None exactly when the meter has no reading recorded in               *)
(* [now - Day, now); otherwise it is the balance of the latest reading in  *)
(* that window minus the balance just fetched.                             *)
C5_UsageOverTrailingDay ==
    (resp.op = "check_balances" /\ resp.success) =>
        \A k \in DOMAIN resp.results :
            LET r == resp.results[k]
                now == clock
            IN r.ok =>
               \A m \in MetersByNumber(meters, users[resp.tg].id, r.number) :
                  LET window == {i \in ReadingsOf(history, m) :
                                    /\ history[i].recorded_at >= now - Day
                                    /\ history[i].recorded_at < now}
                      latest == {i \in window : \A j \in window :
                                    history[j].recorded_at <= history[i].recorded_at}
                  IN /\ (r.yesterday_usage = None) <=> (window = {})
                     /\ window # {} =>
                           /\ Cardinality(latest) = 1
                           /\ \A i \in latest :
                                 r.yesterday_usage =
                                     Some(history[i].balance - r.balance[1])

(* A sweep has just reported a negative usage (a top-up) against a reading  *)
(* recorded exactly one day before it.                                     *)
C5_Witness ==
    /\ resp.op = "check_balances"
    /\ \E k \in DOMAIN resp.results :
          /\ resp.results[k].ok
          /\ resp.results[k].yesterday_usage # None
          /\ resp.results[k].yesterday_usage[1] < 0
          /\ \E m \in MetersByNumber(meters, users[resp.tg].id, resp.results[k].number) :
                /\ Cardinality(ReadingsOf(history, m)) = 2
                /\ \E i \in ReadingsOf(history, m) :
                      history[i].recorded_at = clock - Day

(* C8.  A sweep answers with one entry per meter of the user, in the order  *)
(* the meters were visited.  A meter whose adapter call failed has an      *)
(* error entry, and its row and its readings are untouched; a meter whose  *)
(* call succeeded has its snapshot set to the fetched balance and one new  *)
(* reading of that balance, whatever happened to the other meters.         *)
C8_SweepSurvivesPartialFailure ==
    [][(resp'.op = "check_balances" /\ resp'.success) =>
          LET ids == MetersOf(meters, users[resp'.tg].id)
              res == resp'.results
              rows(hs, m) == {hs[i] : i \in ReadingsOf(hs, m)}
          IN /\ Len(res) = Cardinality(ids)
             /\ DOMAIN meters' = DOMAIN meters
             /\ \A k \in DOMAIN res : res[k].number = resp'.scraped[k].number
             /\ \A m \in ids :
                   LET es == {k \in DOMAIN res : res[k].number = meters[m].meter_number}
                   IN /\ Cardinality(es) = 1
                      /\ \A k \in es :
                            IF resp'.scraped[k].success
                            THEN /\ res[k].ok
                                 /\ meters'[m].last_balance = res[k].balance
                                 /\ meters'[m].last_checked = Some(clock')
                                 /\ rows(history, m) \subseteq rows(history', m)
                                 /\ \E h \in rows(history', m) \ rows(history, m) :
                                       /\ h.balance = res[k].balance[1]
                                       /\ rows(history', m) = rows(history, m) \cup {h}
                            ELSE /\ ~res[k].ok
                                 /\ res[k].error \in ScrapeErrors
                                 /\ meters'[m] = meters[m]
                                 /\ rows(history', m) = rows(history, m)]_vars

(* A sweep over two meters has just returned: the adapter failed for the    *)
(* first and the second, visited after it, has a new balance and reading.  *)
C8_Witness ==
    /\ resp.op = "check_balances"
    /\ Len(resp.results) = 2
    /\ ~resp.results[1].ok
    /\ resp.results[2].ok
    /\ \E m \in MetersByNumber(meters, users[resp.tg].id, resp.results[2].number) :
          /\ meters[m].last_balance = resp.results[2].balance
          /\ Cardinality(ReadingsOf(history, m)) = 2

(* The reply of a sweep that refreshed the single meter of the scenario.    *)
ScenarioRefreshed ==
    /\ resp.op = "check_balances"
    /\ resp.success
    /\ Len(resp.results) = 1
    /\ resp.results[1].ok

(* The scenario after its first refresh: registered at 120.5, refreshed     *)
(* less than a day later at 95.0.                                          *)
ScenarioFirstRefresh ==
    /\ ScenarioRefreshed
    /\ Len(history) = 2
    /\ history[1].balance = 1205
    /\ history[2].balance = 950
    /\ history[2].recorded_at - history[1].recorded_at < Day

(* The scenario after its second refresh, at 80.0, no more than a day       *)
(* after the first, so that the 95.0 reading is inside the trailing day.   *)
ScenarioSecondRefresh ==
    /\ ScenarioRefreshed
    /\ Len(history) = 3
    /\ history[1].balance = 1205
    /\ history[2].balance = 950
    /\ history[3].balance = 800
    /\ history[2].recorded_at - history[1].recorded_at < Day
    /\ history[3].recorded_at - history[2].recorded_at <= Day

(* C6 (as stated).  In the scenario the first refresh reports 95.0 with no  *)
(* usage figure and the second reports a usage of 15.0.                    *)
C6_ScenarioFirstDeltaNone ==
    /\ ScenarioFirstRefresh =>
          /\ resp.results[1].balance = Some(950)
          /\ resp.results[1].yesterday_usage = None
    /\ ScenarioSecondRefresh =>
          resp.results[1].yesterday_usage = Some(150)

(* C6 (amended).  In the scenario the first refresh reports 95.0 with a     *)
(* usage of 25.5, measured against the registration reading, which lies    *)
(* inside the trailing day; the second refresh reports a usage of 15.0.    *)
C6_ScenarioFirstDeltaFromRegistration ==
    /\ ScenarioFirstRefresh =>
          /\ resp.results[1].balance = Some(950)
          /\ resp.results[1].yesterday_usage = Some(255)
    /\ ScenarioSecondRefresh =>
          /\ resp.results[1].balance = Some(800)
          /\ resp.results[1].yesterday_usage = Some(150)

(* The scenario has run to its end: the second refresh has just answered    *)
(* a full day after the first.                                             *)
C6_Witness ==
    /\ ScenarioSecondRefresh
    /\ history[3].recorded_at - history[2].recorded_at = Day
    /\ resp.results[1].yesterday_usage = Some(150)

(* C7.  In the reply of a sweep, a refreshed meter's alert is set exactly   *)
(* when the fetched balance is strictly below the min_balance stored for   *)
(* the meter, and the reply quotes that stored min_balance.                *)
C7_AlertAgainstStoredMinBalance ==
    (resp.op = "check_balances" /\ resp.success) =>
        \A k \in DOMAIN resp.results :
            LET r == resp.results[k]
            IN r.ok =>
               \A m \in MetersByNumber(meters, users[resp.tg].id, r.number) :
                  /\ r.alert <=> (r.balance[1] < meters[m].min_balance)
                  /\ r.min_balance = Some(meters[m].min_balance)

(* A sweep has just raised an alert for a balance of 80.0, which is above   *)
(* the default threshold, against a threshold that was raised to 95.0.     *)
C7_Witness ==
    /\ resp.op = "check_balances"
    /\ \E k \in DOMAIN resp.results :
          /\ resp.results[k].ok
          /\ resp.results[k].alert
          /\ resp.results[k].balance = Some(800)
          /\ resp.results[k].min_balance = Some(950)

(* C9 (as stated).  A set-min-balance request carrying a non-positive       *)
(* value is answered with an error and leaves every meter's min_balance    *)
(* as it was.                                                              *)
C9_NonPositiveMinBalanceRejected ==
    [][\A meter_id \in MeterIds : \A min_balance \in MinBalanceInputs :
          (min_balance <= 0 /\ SetMinBalance(101, meter_id, min_balance)) =>
              /\ ~resp'.success
              /\ \A m \in DOMAIN meters : meters'[m].min_balance = meters[m].min_balance]_vars

(* The readings of meter mid that no other reading of the meter follows, by *)
(* recorded_at and then by id.                                             *)
MostRecent(hs, mid) ==
    {i \in ReadingsOf(hs, mid) : \A j \in ReadingsOf(hs, mid) :
        \/ hs[j].recorded_at < hs[i].recorded_at
        \/ hs[j].recorded_at = hs[i].recorded_at /\ hs[j].id <= hs[i].id}

(* C10 (as stated).  Whenever no sweep is in progress, whatever sweeps ran  *)
(* and however their steps interleaved, every meter's last_balance is the  *)
(* balance of its most recent reading.                                     *)
C10_NoLostUpdate ==
    (\A w \in Workers : sess[w].pc = "idle") =>
        \A m \in DOMAIN meters : \A i \in MostRecent(history, m) :
            meters[m].last_balance = Some(history[i].balance)

-----------------------------------------------------------------------------
(* POST /api/add-meter served by two workers at once, each in its own       *)
(* db.session.  The handler is cut where it talks to the database: the     *)
(* query of line 119, the commit of line 123, the query of line 126 and    *)
(* the commit of line 147.  The meters table of lines 31-41 declares no    *)
(* unique constraint on (user_id, meter_number); users.telegram_user_id is *)
(* unique (line 24).                                                       *)

(* lines 110-119: the fields are read and the user is looked up *)
AddMeterBegin(w, tg, number, name) ==
    /\ sess[w].pc = "idle"
    /\ IF tg = 0 \/ number = "" \/ name = ""
       THEN /\ AddMeterMissingFields(tg, number)
            /\ UNCHANGED sess
       ELSE /\ sess' = [sess EXCEPT ![w] =
                   [NoSession EXCEPT !.pc = "add_user", !.tg = tg,
                                     !.number = number, !.name = name,
                                     !.user = IF tg \in DOMAIN users
                                              THEN Some(users[tg].id) ELSE None]]
            /\ UNCHANGED <<users, nextUserId, meters, history, nextMeterId,
                           nextHistoryId, clock, resp>>
    /\ UNCHANGED botvars

(* lines 120-123: a user not found is inserted and committed.  When another *)
(* request has committed the same telegram_user_id meanwhile the INSERT    *)
(* breaks the unique index, the handler raises and Flask answers 500.      *)
AddMeterUser(w) ==
    LET s == sess[w]
    IN /\ s.pc = "add_user"
       /\ IF s.user # None
          THEN /\ sess' = [sess EXCEPT ![w].pc = "add_check"]
               /\ UNCHANGED <<users, nextUserId, resp>>
          ELSE IF s.tg \in DOMAIN users
          THEN /\ resp' = [Reply("add_meter", s.tg, 500, FALSE, "IntegrityError", "")
                              EXCEPT !.number = s.number]
               /\ sess' = [sess EXCEPT ![w] = NoSession]
               /\ UNCHANGED <<users, nextUserId>>
          ELSE /\ users' = GetOrCreateUser(users, s.tg, nextUserId)
               /\ nextUserId' = nextUserId + 1
               /\ sess' = [sess EXCEPT ![w].pc = "add_check",
                                       ![w].user = Some(nextUserId)]
               /\ UNCHANGED resp
       /\ UNCHANGED <<meters, history, nextMeterId, nextHistoryId, clock, botvars>>

(* lines 125-128: the existence check sees the meters committed so far *)
AddMeterCheck(w) ==
    LET s == sess[w]
    IN /\ s.pc = "add_check"
       /\ IF MetersByNumber(meters, s.user[1], s.number) # {}
          THEN /\ AddMeterDuplicate(s.tg, s.number)
               /\ sess' = [sess EXCEPT ![w] = NoSession]
          ELSE /\ sess' = [sess EXCEPT ![w].pc = "add_verify"]
               /\ UNCHANGED <<meters, history, nextMeterId, nextHistoryId,
                              clock, resp>>
       /\ UNCHANGED <<users, nextUserId, botvars>>

(* lines 130-152: the adapter is called, and on success the Meter and its   *)
(* first BalanceHistory are inserted and committed, whatever was committed *)
(* since the check.                                                        *)
AddMeterVerify(w, scrape) ==
    LET s == sess[w]
    IN /\ s.pc = "add_verify"
       /\ IF ~scrape.success
          THEN AddMeterUnverified(s.tg, s.number, scrape)
          ELSE AddMeterCreate(s.tg, s.user[1], s.number, s.name, scrape, clock)
       /\ sess' = [sess EXCEPT ![w] = NoSession]
       /\ UNCHANGED <<users, nextUserId, botvars>>

NextAdd ==
    \/ \E w \in Workers : \E number \in MeterNumbers :
       \E name \in MeterNames \cup {""} :
           AddMeterBegin(w, 101, number, name)
    \/ \E w \in Workers : AddMeterUser(w)
    \/ \E w \in Workers : AddMeterCheck(w)
    \/ \E w \in Workers : \E scrape \in ScrapeResults(CoarseBalances) :
           AddMeterVerify(w, scrape)

SpecAdd == Init /\ [][NextAdd]_vars

(* C11 (as stated).  No two Meter rows have the same user and the same      *)
(* meter number.                                                           *)
C11_MeterNumberUniquePerUser ==
    \A m, n \in DOMAIN meters :
        (meters[m].user_id = meters[n].user_id
             /\ meters[m].meter_number = meters[n].meter_number) => m = n

-----------------------------------------------------------------------------
(* The Telegram bot, src/backend/bot.py.  The text of a message is a        *)
(* sequence of one-character strings, so that str.strip, str.isdigit,      *)
(* str.split, int and float are computed character by character.           *)

DigitChars == {"0", "1", "2", "3", "4", "5", "6", "7", "8", "9"}

DigitValue(c) ==
    CASE c = "0" -> 0 [] c = "1" -> 1 [] c = "2" -> 2 [] c = "3" -> 3
      [] c = "4" -> 4 [] c = "5" -> 5 [] c = "6" -> 6 [] c = "7" -> 7
      [] c = "8" -> 8 [] c = "9" -> 9

(* The str of a text *)
RECURSIVE Join(_)
Join(cs) == IF cs = <<>> THEN "" ELSE Head(cs) \o Join(Tail(cs))

RECURSIVE LStrip(_)
LStrip(cs) == IF cs # <<>> /\ Head(cs) = " " THEN LStrip(Tail(cs)) ELSE cs

RECURSIVE RStrip(_)
RStrip(cs) ==
    IF cs # <<>> /\ cs[Len(cs)] = " "
    THEN RStrip(SubSeq(cs, 1, Len(cs) - 1))
    ELSE cs

(* str.strip() *)
Strip(cs) == RStrip(LStrip(cs))

(* A test for digits that the empty string passes *)
IsDigitOrEmpty(cs) == \A i \in DOMAIN cs : cs[i] \in DigitChars

(* str.isdigit(): at least one character and digits only *)
IsDigit(cs) == cs # <<>> /\ \A i \in DOMAIN cs : cs[i] \in DigitChars

(* The characters of cs before and after its first "." *)
BeforeDot(cs) ==
    IF \E i \in DOMAIN cs : cs[i] = "."
    THEN SubSeq(cs, 1, (CHOOSE i \in DOMAIN cs :
                           cs[i] = "." /\ \A j \in 1 .. (i - 1) : cs[j] # ".") - 1)
    ELSE cs

AfterDot(cs) == SubSeq(cs, Len(BeforeDot(cs)) + 2, Len(cs))

(* text.split('.')[0] *)
SplitDotFirst(cs) == BeforeDot(cs)

(* The number a string of digits writes; 0 for the empty string *)
RECURSIVE Number(_)
Number(ds) ==
    IF ds = <<>> THEN 0
    ELSE 10 * Number(SubSeq(ds, 1, Len(ds) - 1)) + DigitValue(ds[Len(ds)])

(* A numeral of int() and float() without its sign, and the sign *)
Unsigned(cs) == IF cs # <<>> /\ Head(cs) \in {"-", "+"} THEN Tail(cs) ELSE cs
Sign(cs) == IF cs # <<>> /\ Head(cs) = "-" THEN -1 ELSE 1

(* int(text): None stands for ValueError.  Surrounding white space and a    *)
(* sign are accepted.                                                      *)
ParseInt(cs) ==
    LET t == Strip(cs)
    IN IF IsDigit(Unsigned(t)) THEN Some(Sign(t) * Number(Unsigned(t))) ELSE None

(* float(text) in tenths: None stands for ValueError.  Surrounding white    *)
(* space, a sign and a decimal point with digits on at least one side are  *)
(* accepted; the texts of the model have at most one decimal and none is   *)
(* in exponent, inf or nan form.                                           *)
ParseFloat(cs) ==
    LET t == Strip(cs)
        u == Unsigned(t)
        whole == BeforeDot(u)
        frac == AfterDot(u)
        digits(ds) == \A i \in DOMAIN ds : ds[i] \in DigitChars
    IN IF digits(whole) /\ digits(frac) /\ Len(whole) + Len(frac) > 0
       THEN Some(Sign(t) * (10 * Number(whole)
                            + (IF frac = <<>> THEN 0 ELSE DigitValue(frac[1]))))
       ELSE None

(* Updates: a command (its name without the slash) or a text message *)
Command(c) == [command |-> c, text |-> <<>>]
Text(cs) == [command |-> "", text |-> cs]

CancelToken == <<"C", "a", "n", "c", "e", "l">>

(* ConversationHandler.check_update for add_conv (lines 304-311) in state   *)
(* state: the callback that takes the update, "" when none does.  Outside  *)
(* a conversation only the entry point is tried; inside one, the handler   *)
(* of the state, which takes any text that is not a command, and then the  *)
(* fallback.                                                               *)
AddConvHandler(state, u) ==
    IF state = END
    THEN IF u.command = "add" THEN "add_meter_start" ELSE ""
    ELSE IF u.command = ""
         THEN IF state = ADD_METER_NUMBER THEN "add_meter_number" ELSE "add_meter_name"
         ELSE IF u.command = "cancel" THEN "cancel" ELSE ""

(* The same for minbalance_conv (lines 315-322) *)
MinbalanceConvHandler(state, u) ==
    IF state = END
    THEN IF u.command = "minbalance" THEN "minbalance_start" ELSE ""
    ELSE IF u.command = ""
         THEN IF state = SET_MIN_METER THEN "minbalance_meter_selected"
                                       ELSE "minbalance_amount"
         ELSE IF u.command = "cancel" THEN "cancel" ELSE ""

(* Application.process_update over the handlers of main() in the order      *)
(* they were added (lines 297-326): the first handler that takes the       *)
(* update handles it and the others do not see it.  add_conv was added     *)
(* before minbalance_conv.                                                 *)
Dispatch(c, u) ==
    IF AddConvHandler(c.add, u) # ""
    THEN [conversation |-> "add", handler |-> AddConvHandler(c.add, u)]
    ELSE IF MinbalanceConvHandler(c.minbalance, u) # ""
    THEN [conversation |-> "minbalance",
          handler |-> MinbalanceConvHandler(c.minbalance, u)]
    ELSE [conversation |-> "", handler |-> ""]

(* The state of the backend process *)
dbvars == <<users, meters, history, nextUserId, nextMeterId, nextHistoryId,
            clock, resp, sess>>

(* A request of call_backend (lines 22-32) *)
Call(endpoint, tg, number, name, meter_id, min_balance) ==
    [endpoint |-> endpoint, tg |-> tg, number |-> number, name |-> name,
     meter_id |-> meter_id, min_balance |-> min_balance]

Sent(tg, u, handler, reply, calls) ==
    [tg |-> tg, update |-> u, handler |-> handler, raised |-> FALSE,
     reply |-> reply, calls |-> calls]

(* A callback that raised: python-telegram-bot logs the exception, and the  *)
(* conversation stays in the state it was in.                              *)
Raised(tg, u, handler) ==
    [tg |-> tg, update |-> u, handler |-> handler, raised |-> TRUE,
     reply |-> "", calls |-> <<>>]

(* app.py lines 154-173, POST /api/list-meters: the meters of the user in   *)
(* the order user.meters loaded them; of each row the bot reads id, name   *)
(* and number.  The handler writes nothing.                                *)
MetersList(ms, order) ==
    [i \in DOMAIN order |->
        [id |-> order[i], name |-> ms[order[i]].meter_name,
         number |-> ms[order[i]].meter_number]]

ListMeters(tg) ==
    /\ resp' = Reply("list_meters", tg, 200, TRUE, "", "")
    /\ UNCHANGED <<users, meters, history, nextUserId, nextMeterId,
                   nextHistoryId, clock, sess>>

(* lines 66-72, /add *)
BotAddMeterStart(tg) ==
    /\ Dispatch(conv[tg], Command("add")).handler = "add_meter_start"
    /\ conv' = [conv EXCEPT ![tg].add = ADD_METER_NUMBER]
    /\ sent' = Sent(tg, Command("add"), "add_meter_start", "Please send your meter number", <<>>)
    /\ UNCHANGED <<user_data, dbvars>>

(* lines 74-83 *)
BotAddMeterNumber(tg, text) ==
    LET meter_number == Strip(text)
    IN /\ Dispatch(conv[tg], Text(text)).handler = "add_meter_number"
       /\ IF ~IsDigit(meter_number)
          THEN /\ sent' = Sent(tg, Text(text), "add_meter_number",
                               "Please send a valid meter number", <<>>)
               /\ UNCHANGED <<conv, user_data>>
          ELSE /\ user_data' = [user_data EXCEPT
                                   ![tg].meter_number = Some(Join(meter_number))]
               /\ conv' = [conv EXCEPT ![tg].add = ADD_METER_NAME]
               /\ sent' = Sent(tg, Text(text), "add_meter_number", "Now send a name", <<>>)
       /\ UNCHANGED dbvars

(* An add_meter_name that ends the conversation only when the backend      *)
(* reported success, and otherwise waits for another name.                 *)
BotAddMeterNameUntilSuccess(tg, text, reachable, scrape) ==
    LET meter_name == Join(Strip(text))
        meter_number == user_data[tg].meter_number[1]
    IN /\ Dispatch(conv[tg], Text(text)).handler = "add_meter_name"
       /\ user_data[tg].meter_number # None
       /\ IF reachable
          THEN AddMeter(tg, meter_number, meter_name, scrape, 0)
          ELSE UNCHANGED dbvars
       /\ sent' = Sent(tg, Text(text), "add_meter_name",
                       IF reachable /\ resp'.success THEN "message" ELSE "Error",
                       <<Call("/api/add-meter", tg, meter_number, meter_name,
                              0, None)>>)
       /\ IF reachable /\ resp'.success
          THEN /\ user_data' = [user_data EXCEPT ![tg] = NoUserData]
               /\ conv' = [conv EXCEPT ![tg].add = END]
          ELSE UNCHANGED <<conv, user_data>>

(* lines 85-104.  reachable says whether the backend answered the request;  *)
(* when it did not, call_backend returns a failure and nothing is stored.  *)
BotAddMeterName(tg, text, reachable, scrape) ==
    /\ Dispatch(conv[tg], Text(text)).handler = "add_meter_name"
    /\ IF user_data[tg].meter_number = None
       THEN /\ sent' = Raised(tg, Text(text), "add_meter_name")
            /\ UNCHANGED <<conv, user_data, dbvars>>
       ELSE LET meter_name == Join(Strip(text))
                meter_number == user_data[tg].meter_number[1]
            IN /\ IF reachable
                  THEN AddMeter(tg, meter_number, meter_name, scrape, 0)
                  ELSE UNCHANGED dbvars
               /\ sent' = Sent(tg, Text(text), "add_meter_name",
                               IF reachable /\ resp'.success
                               THEN "message" ELSE "Error",
                               <<Call("/api/add-meter", tg, meter_number,
                                      meter_name, 0, None)>>)
               /\ user_data' = [user_data EXCEPT ![tg] = NoUserData]
               /\ conv' = [conv EXCEPT ![tg].add = END]

(* A minbalance_start that shows the keyboard whatever the list holds *)
BotMinbalanceStartAlways(tg, reachable) ==
    LET ids == IF reachable /\ tg \in DOMAIN users
               THEN MetersOf(meters, users[tg].id) ELSE {}
    IN /\ Dispatch(conv[tg], Command("minbalance")).handler = "minbalance_start"
       /\ IF reachable THEN ListMeters(tg) ELSE UNCHANGED dbvars
       /\ \E order \in Orders(ids) :
             user_data' = [user_data EXCEPT ![tg].minbalance_meters =
                              Some(MetersList(meters, order))]
       /\ conv' = [conv EXCEPT ![tg].minbalance = SET_MIN_METER]
       /\ sent' = Sent(tg, Command("minbalance"), "minbalance_start",
                       "Select a meter:",
                       <<Call("/api/list-meters", tg, "", "", 0, None)>>)

(* lines 212-228, /minbalance *)
BotMinbalanceStart(tg, reachable) ==
    LET found == reachable /\ tg \in DOMAIN users
                           /\ MetersOf(meters, users[tg].id) # {}
    IN /\ Dispatch(conv[tg], Command("minbalance")).handler = "minbalance_start"
       /\ IF reachable THEN ListMeters(tg) ELSE UNCHANGED dbvars
       /\ IF ~found
          THEN /\ sent' = Sent(tg, Command("minbalance"), "minbalance_start", "No meters found",
                               <<Call("/api/list-meters", tg, "", "", 0, None)>>)
               /\ UNCHANGED <<conv, user_data>>
          ELSE /\ \E order \in Orders(MetersOf(meters, users[tg].id)) :
                     user_data' = [user_data EXCEPT ![tg].minbalance_meters =
                                      Some(MetersList(meters, order))]
               /\ conv' = [conv EXCEPT ![tg].minbalance = SET_MIN_METER]
               /\ sent' = Sent(tg, Command("minbalance"), "minbalance_start", "Select a meter:",
                               <<Call("/api/list-meters", tg, "", "", 0, None)>>)

(* meters[index] of line 240 for a Python list: the 1-based position the    *)
(* index denotes, None for IndexError.  A negative index counts from the   *)
(* end of the list.                                                        *)
ListIndex(list, index) ==
    IF 0 <= index /\ index < Len(list) THEN Some(index + 1)
    ELSE IF index < 0 /\ -index <= Len(list) THEN Some(Len(list) + index + 1)
    ELSE None

(* lines 230-251 *)
BotMinbalanceMeterSelected(tg, text) ==
    LET k == ParseInt(SplitDotFirst(text))
        list == IF user_data[tg].minbalance_meters = None
                THEN <<>> ELSE user_data[tg].minbalance_meters[1]
        at == IF k = None THEN None ELSE ListIndex(list, k[1] - 1)
    IN /\ Dispatch(conv[tg], Text(text)).handler = "minbalance_meter_selected"
       /\ IF text = CancelToken
          THEN /\ sent' = Sent(tg, Text(text), "minbalance_meter_selected", "Cancelled", <<>>)
               /\ conv' = [conv EXCEPT ![tg].minbalance = END]
               /\ UNCHANGED user_data
          ELSE IF at = None
          THEN /\ sent' = Sent(tg, Text(text), "minbalance_meter_selected",
                               "Invalid selection", <<>>)
               /\ conv' = [conv EXCEPT ![tg].minbalance = END]
               /\ UNCHANGED user_data
          ELSE /\ user_data' = [user_data EXCEPT
                                   ![tg].selected_meter = Some(list[at[1]])]
               /\ conv' = [conv EXCEPT ![tg].minbalance = SET_MIN_AMOUNT]
               /\ sent' = Sent(tg, Text(text), "minbalance_meter_selected",
                               "Send minimum balance amount", <<>>)
       /\ UNCHANGED dbvars

(* lines 253-273: ValueError is caught, the KeyError of line 256 is not *)
BotMinbalanceAmount(tg, text, reachable) ==
    LET amount == ParseFloat(text)
    IN /\ Dispatch(conv[tg], Text(text)).handler = "minbalance_amount"
       /\ IF amount = None
          THEN /\ sent' = Sent(tg, Text(text), "minbalance_amount",
                               "Please send a valid number", <<>>)
               /\ user_data' = [user_data EXCEPT ![tg] = NoUserData]
               /\ conv' = [conv EXCEPT ![tg].minbalance = END]
               /\ UNCHANGED dbvars
          ELSE IF user_data[tg].selected_meter = None
          THEN /\ sent' = Raised(tg, Text(text), "minbalance_amount")
               /\ UNCHANGED <<conv, user_data, dbvars>>
          ELSE LET meter == user_data[tg].selected_meter[1]
               IN /\ IF reachable
                     THEN SetMinBalance(tg, meter.id, amount[1])
                     ELSE UNCHANGED dbvars
                  /\ sent' = Sent(tg, Text(text), "minbalance_amount",
                                  IF reachable /\ resp'.success
                                  THEN "message" ELSE "Error",
                                  <<Call("/api/set-min-balance", tg, "", "",
                                         meter.id, amount)>>)
                  /\ user_data' = [user_data EXCEPT ![tg] = NoUserData]
                  /\ conv' = [conv EXCEPT ![tg].minbalance = END]

(* lines 284-287, /cancel: the fallback of the conversation that took it *)
BotCancel(tg) ==
    LET d == Dispatch(conv[tg], Command("cancel"))
    IN /\ d.handler = "cancel"
       /\ sent' = Sent(tg, Command("cancel"), "cancel", "Cancelled", <<>>)
       /\ user_data' = [user_data EXCEPT ![tg] = NoUserData]
       /\ conv' = IF d.conversation = "add"
                  THEN [conv EXCEPT ![tg].add = END]
                  ELSE [conv EXCEPT ![tg].minbalance = END]
       /\ UNCHANGED dbvars

(* An update neither conversation takes: nothing runs *)
BotUnhandled(tg, u) ==
    /\ Dispatch(conv[tg], u).handler = ""
    /\ sent' = [NoSent EXCEPT !.tg = tg, !.update = u]
    /\ UNCHANGED <<conv, user_data, dbvars>>

(* The texts a user types at each prompt *)
NumberTexts == {<<"1">>, <<" ", "2">>, <<"a">>, <<" ">>}
NameTexts == {<<"a">>, <<" ">>}
ChoiceTexts ==
    {<<"1">>, <<"0">>, <<"-", "1">>, <<"3">>, <<"a">>, CancelToken,
     <<"2", ".", " ", "a">>}
AmountTexts == {<<"1", ".", "5">>, <<"-", "1">>, <<"a">>}
BotBalances == {950}

(* One user talks to the bot, one update after the other; the backend       *)
(* serves the requests of the bot and no others.                           *)
NextBot ==
    \/ BotAddMeterStart(101)
    \/ \E text \in NumberTexts : BotAddMeterNumber(101, text)
    \/ \E text \in NameTexts : \E reachable \in BOOLEAN :
       \E scrape \in ScrapeResults(BotBalances) :
           BotAddMeterName(101, text, reachable, scrape)
    \/ \E reachable \in BOOLEAN : BotMinbalanceStart(101, reachable)
    \/ \E text \in ChoiceTexts : BotMinbalanceMeterSelected(101, text)
    \/ \E text \in AmountTexts : \E reachable \in BOOLEAN :
           BotMinbalanceAmount(101, text, reachable)
    \/ BotCancel(101)
    \/ \E u \in {Command("add"), Command("minbalance"), Command("cancel"),
                 Text(<<"a">>)} :
           BotUnhandled(101, u)

SpecBot == Init /\ [][NextBot]_vars

-----------------------------------------------------------------------------
(* The callbacks of each conversation that handle a text *)
AddTextHandlers == {"add_meter_number", "add_meter_name"}
MinbalanceTextHandlers == {"minbalance_meter_selected", "minbalance_amount"}

(* The conversation whose callback handled the update of the step *)
Handling(flow) ==
    \/ flow = "add" /\ sent'.handler \in AddTextHandlers \cup {"add_meter_start"}
    \/ flow = "minbalance"
          /\ sent'.handler \in MinbalanceTextHandlers \cup {"minbalance_start"}
    \/ /\ sent'.handler = "cancel"
       /\ Dispatch(conv[sent'.tg], Command("cancel")).conversation = flow

(* C12 (as stated).  For every user at most one of the two conversations    *)
(* is in a state other than END.                                           *)
C12_AtMostOneFlowActive ==
    \A tg \in TgUsers : conv[tg].add = END \/ conv[tg].minbalance = END

(* C13 (as stated).  A callback that handles a text in a non-terminal       *)
(* state does not raise, and it moves the conversation to its next state,  *)
(* or ends it with user_data empty, or, in ADD_METER_NUMBER only, asks     *)
(* again and stays.                                                        *)
C13_TextAdvancesOrEndsCleared ==
    [][sent'.handler \in AddTextHandlers \cup MinbalanceTextHandlers =>
          LET tg == sent'.tg
              flow == IF sent'.handler \in AddTextHandlers
                      THEN "add" ELSE "minbalance"
              before == conv[tg][flow]
              after == conv'[tg][flow]
          IN /\ ~sent'.raised
             /\ \/ before = ADD_METER_NUMBER /\ after = ADD_METER_NAME
                \/ before = SET_MIN_METER /\ after = SET_MIN_AMOUNT
                \/ after = END /\ user_data'[tg] = NoUserData
                \/ /\ before = ADD_METER_NUMBER /\ after = ADD_METER_NUMBER
                   /\ sent'.reply = "Please send a valid meter number"]_vars

(* C14 (as stated).  A callback of the Add-Meter conversation leaves the    *)
(* scratch of the Set-Minimum-Balance conversation as it was, a callback   *)
(* of the Set-Minimum-Balance conversation leaves meter_number as it was,  *)
(* and when a conversation starts while the other is at END, nothing of    *)
(* the other's scratch is in user_data.                                    *)
C14_ScratchPrivateToItsFlow ==
    [][LET tg == sent'.tg
       IN /\ Handling("add") =>
                /\ user_data'[tg].minbalance_meters = user_data[tg].minbalance_meters
                /\ user_data'[tg].selected_meter = user_data[tg].selected_meter
          /\ Handling("minbalance") =>
                user_data'[tg].meter_number = user_data[tg].meter_number
          /\ (sent'.handler = "add_meter_start" /\ conv[tg].minbalance = END) =>
                /\ user_data'[tg].minbalance_meters = None
                /\ user_data'[tg].selected_meter = None
          /\ (sent'.handler = "minbalance_start" /\ conv[tg].add = END) =>
                user_data'[tg].meter_number = None]_vars

(* C15 (as stated).  /cancel taken by the Add-Meter conversation, and the   *)
(* Cancel token in SET_MIN_METER, end the conversation, leave user_data    *)
(* empty and change nothing in the database.                               *)
C15_CancelClearsAndMutatesNothing ==
    [][LET tg == sent'.tg
           cancelled ==
               \/ sent'.handler = "cancel" /\ Handling("add")
               \/ /\ sent'.handler = "minbalance_meter_selected"
                  /\ sent'.update = Text(CancelToken)
           flow == IF sent'.handler = "cancel" THEN "add" ELSE "minbalance"
       IN cancelled =>
             /\ conv'[tg][flow] = END
             /\ user_data'[tg] = NoUserData
             /\ sent'.calls = <<>>
             /\ UNCHANGED <<users, meters, history>>]_vars

(* C16 (as stated).  In SET_MIN_METER a text other than the Cancel token    *)
(* whose leading number is k moves the conversation to SET_MIN_AMOUNT      *)
(* with the k-th meter of the list selected exactly when 1 <= k <= n, n    *)
(* the length of the list; any other text ends the conversation with      *)
(* "Invalid selection" and nothing selected.                               *)
C16_ChoiceValidIffInRange ==
    [][(sent'.handler = "minbalance_meter_selected"
            /\ sent'.update.text # CancelToken) =>
          LET tg == sent'.tg
              k == ParseInt(SplitDotFirst(sent'.update.text))
              list == IF user_data[tg].minbalance_meters = None
                      THEN <<>> ELSE user_data[tg].minbalance_meters[1]
          IN IF k # None /\ 1 <= k[1] /\ k[1] <= Len(list)
             THEN /\ conv'[tg].minbalance = SET_MIN_AMOUNT
                  /\ user_data'[tg].selected_meter = Some(list[k[1]])
             ELSE /\ conv'[tg].minbalance = END
                  /\ sent'.reply = "Invalid selection"
                  /\ user_data'[tg].selected_meter = None]_vars

(* C17 (as stated).  In SET_MIN_AMOUNT a text that float() parses sends     *)
(* exactly one set-min-balance request, for the meter selected in          *)
(* SET_MIN_METER, and ends the conversation; a text it does not parse      *)
(* sends no request and ends the conversation with an error message.       *)
C17_AmountSetsSelectedMeterOnce ==
    [][sent'.handler = "minbalance_amount" =>
          LET tg == sent'.tg
              amount == ParseFloat(sent'.update.text)
          IN IF amount # None
             THEN /\ Len(sent'.calls) = 1
                  /\ sent'.calls[1].endpoint = "/api/set-min-balance"
                  /\ sent'.calls[1].min_balance = amount
                  /\ user_data[tg].selected_meter # None
                  /\ sent'.calls[1].meter_id = user_data[tg].selected_meter[1].id
                  /\ conv'[tg].minbalance = END
             ELSE /\ sent'.calls = <<>>
                  /\ sent'.reply = "Please send a valid number"
                  /\ conv'[tg].minbalance = END]_vars

(* C18 (as stated).  In ADD_METER_NUMBER a text that is empty or has a      *)
(* character that is not a digit is answered with the prompt again: the    *)
(* conversation stays, no meter_number is stored and no request is sent;   *)
(* a text of digits only is stored as meter_number and the conversation    *)
(* moves to ADD_METER_NAME.                                                *)
C18_NonDigitTextReprompts ==
    [][sent'.handler = "add_meter_number" =>
          LET tg == sent'.tg
              text == sent'.update.text
          IN IF text # <<>> /\ \A i \in DOMAIN text : text[i] \in DigitChars
             THEN /\ user_data'[tg].meter_number = Some(Join(text))
                  /\ conv'[tg].add = ADD_METER_NAME
             ELSE /\ conv'[tg].add = ADD_METER_NUMBER
                  /\ user_data'[tg].meter_number = None
                  /\ sent'.calls = <<>>
                  /\ sent'.reply = "Please send a valid meter number"]_vars

(* The text between the first and the last character of cs that is not a    *)
(* space; empty when cs has spaces only.                                   *)
Trimmed(cs) ==
    LET ink == {i \in DOMAIN cs : cs[i] # " "}
    IN IF ink = {} THEN <<>>
       ELSE SubSeq(cs, CHOOSE i \in ink : \A j \in ink : i <= j,
                       CHOOSE i \in ink : \A j \in ink : j <= i)

(* C18 (amended).  In ADD_METER_NUMBER the text is taken without the        *)
(* spaces around it: when what is left is empty or has a character that is *)
(* not a digit the prompt is sent again, the conversation stays, no        *)
(* meter_number is stored and no request is sent; when it is digits only,  *)
(* it is stored as meter_number and the conversation moves to              *)
(* ADD_METER_NAME.                                                         *)
C18_NonDigitTrimmedTextReprompts ==
    [][sent'.handler = "add_meter_number" =>
          LET tg == sent'.tg
              text == Trimmed(sent'.update.text)
          IN IF text # <<>> /\ \A i \in DOMAIN text : text[i] \in DigitChars
             THEN /\ user_data'[tg].meter_number = Some(Join(text))
                  /\ conv'[tg].add = ADD_METER_NAME
                  /\ sent'.calls = <<>>
             ELSE /\ conv'[tg].add = ADD_METER_NUMBER
                  /\ user_data'[tg].meter_number = None
                  /\ sent'.calls = <<>>
                  /\ sent'.reply = "Please send a valid meter number"]_vars

(* The text " 2" has just been accepted as the meter number "2" *)
C18_Witness ==
    /\ sent.handler = "add_meter_number"
    /\ sent.update.text = <<" ", "2">>
    /\ user_data[101].meter_number = Some("2")
    /\ conv[101].add = ADD_METER_NAME

(* C19.  In ADD_METER_NAME a text finds the meter_number stored by          *)
(* add_meter_number, sends exactly one add-meter request carrying it, and  *)
(* whatever the answer, or without one, ends the conversation with         *)
(* user_data empty.                                                        *)
C19_NameRegistersOnceAndEnds ==
    [][sent'.handler = "add_meter_name" =>
          LET tg == sent'.tg
          IN /\ ~sent'.raised
             /\ user_data[tg].meter_number # None
             /\ Len(sent'.calls) = 1
             /\ sent'.calls[1].endpoint = "/api/add-meter"
             /\ sent'.calls[1].tg = tg
             /\ sent'.calls[1].number = user_data[tg].meter_number[1]
             /\ conv'[tg].add = END
             /\ user_data'[tg] = NoUserData]_vars

(* add_meter_name has just ended the conversation after the backend         *)
(* refused a meter number the user already has.                            *)
C19_Witness ==
    /\ sent.handler = "add_meter_name"
    /\ sent.reply = "Error"
    /\ resp.op = "add_meter"
    /\ resp.error = "Meter already exists"
    /\ resp.number = sent.calls[1].number
    /\ conv[101].add = END
    /\ user_data[101] = NoUserData

(* C20.  /minbalance from a user without meters is answered with "No        *)
(* meters found": the conversation stays at END, user_data and the tables  *)
(* are as before, and no text that follows is taken as a selection.        *)
C20_NoMetersNoFlow ==
    [][(sent'.handler = "minbalance_start"
            /\ (sent'.tg \notin DOMAIN users
                \/ MetersOf(meters, users[sent'.tg].id) = {})) =>
          LET tg == sent'.tg
          IN /\ conv'[tg].minbalance = END
             /\ sent'.reply = "No meters found"
             /\ user_data'[tg] = user_data[tg]
             /\ UNCHANGED <<users, meters, history>>
             /\ \A text \in ChoiceTexts :
                   Dispatch(conv'[tg], Text(text)).handler
                       # "minbalance_meter_selected"]_vars

(* The backend has just answered /minbalance of a user it knows, who has    *)
(* no meters, and the bot has said so.                                     *)
C20_Witness ==
    /\ sent.handler = "minbalance_start"
    /\ sent.reply = "No meters found"
    /\ resp.op = "list_meters"
    /\ 101 \in DOMAIN users
    /\ MetersOf(meters, users[101].id) = {}
    /\ conv[101].minbalance = END

-----------------------------------------------------------------------------
(* GET /api/daily-reminder *)

(* Every user with the flag set, whether or not a meter is theirs. *)
RemindersDueOfAllEnabled(us, ms) ==
    {tg \in DOMAIN us : us[tg].daily_reminder_enabled}

(* lines 297-303: of the users the query returns, those whose flag is set,  *)
(* the ones with a meter.                                                  *)
RemindersDue(us, ms) ==
    {tg \in DOMAIN us : us[tg].daily_reminder_enabled
                           /\ MetersOf(ms, us[tg].id) # {}}

(* lines 294-305.  The query has no ORDER BY: the users are logged in any   *)
(* order.  results lists the users logged at line 303, and reminders_sent  *)
(* is its length.  The handler writes nothing.                             *)
DailyReminder ==
    /\ \E order \in Orders(RemindersDue(users, meters)) :
          resp' = [Reply("daily_reminder", 0, 200, TRUE, "", "")
                      EXCEPT !.results = [i \in DOMAIN order |->
                                 [telegram_user_id |-> order[i]]]]
    /\ UNCHANGED <<users, meters, history, nextUserId, nextMeterId,
                   nextHistoryId, clock, sess>>

-----------------------------------------------------------------------------
(* Every endpoint of the backend that reads or writes the tables, requests  *)
(* served one at a time, for two users.                                    *)

EngineBalances == {950}
EngineMinBalances == {300}

(* The meter numbers a user registers: user 101 either, user 102 the one    *)
(* that user 101 may own too.                                              *)
EngineNumbers(tg) == IF tg = 101 THEN MeterNumbers ELSE {"42"}

NextEngine ==
    \/ \E tg \in TgUsers : \E number \in EngineNumbers(tg) : \E name \in MeterNames :
       \E scrape \in ScrapeResults(EngineBalances) :
           AddMeter(tg, number, name, scrape, 1) /\ UNCHANGED botvars
    \/ \E tg \in TgUsers :
           CheckBalances(tg, EngineBalances, 1) /\ UNCHANGED botvars
    \/ \E tg \in TgUsers : \E meter_id \in MeterIds :
       \E min_balance \in EngineMinBalances :
           SetMinBalance(tg, meter_id, min_balance) /\ UNCHANGED botvars
    \/ \E tg \in TgUsers : \E meter_id \in MeterIds :
           RemoveMeter(tg, meter_id) /\ UNCHANGED botvars
    \/ \E tg \in TgUsers : ToggleReminder(tg) /\ UNCHANGED botvars
    \/ \E tg \in TgUsers : ListMeters(tg) /\ UNCHANGED botvars
    \/ DailyReminder /\ UNCHANGED botvars

SpecEngine == Init /\ [][NextEngine]_vars

-----------------------------------------------------------------------------
(* C21.  daily_reminder selects exactly the users whose                     *)
(* daily_reminder_enabled is set and who own a meter, each once, writes    *)
(* none of the tables, and called twice in a row selects the same users.   *)
C21_DueRemindersExactAndReadOnly ==
    [][resp'.op = "daily_reminder" =>
          LET Selected(r) ==
                  {r.results[i].telegram_user_id : i \in DOMAIN r.results}
          IN /\ Selected(resp') =
                    {tg \in DOMAIN users :
                        /\ users[tg].daily_reminder_enabled
                        /\ \E m \in DOMAIN meters :
                               meters[m].user_id = users[tg].id}
             /\ Cardinality(Selected(resp')) = Len(resp'.results)
             /\ UNCHANGED <<users, meters, history>>
             /\ resp.op = "daily_reminder" => Selected(resp) = Selected(resp')]_vars

(* daily_reminder has just selected user 101 and left out user 102, whose   *)
(* flag is set and who has no meter.                                       *)
C21_Witness ==
    /\ resp.op = "daily_reminder"
    /\ resp.results = <<[telegram_user_id |-> 101]>>
    /\ 102 \in DOMAIN users
    /\ users[102].daily_reminder_enabled
    /\ MetersOf(meters, users[102].id) = {}

(* C22 (as stated).  toggle_reminder leaves daily_reminder_enabled of the   *)
(* user the negation of what it was before the call, where a user without  *)
(* a row counts as having the column default: such a user ends the call    *)
(* with the flag cleared.                                                  *)
C22_ToggleNegatesFlag ==
    [][resp'.op = "toggle_reminder" =>
          LET tg == resp'.tg
              before == IF tg \in DOMAIN users
                        THEN users[tg].daily_reminder_enabled
                        ELSE NewUser(0).daily_reminder_enabled
          IN /\ tg \in DOMAIN users'
             /\ users'[tg].daily_reminder_enabled = ~before]_vars

(* C23.  remove_meter called by the owner of the meter deletes its Meter    *)
(* row and every BalanceHistory row of it; every other Meter row, every    *)
(* BalanceHistory row of another meter and every User row is as before.    *)
C23_RemoveDeletesMeterWithReadings ==
    [][(/\ resp'.op = "remove_meter"
        /\ resp'.tg \in DOMAIN users
        /\ resp'.meter_id \in DOMAIN meters
        /\ meters[resp'.meter_id].user_id = users[resp'.tg].id) =>
          LET id == resp'.meter_id
              Rows(hs) == {hs[i] : i \in DOMAIN hs}
          IN /\ resp'.success
             /\ DOMAIN meters' = DOMAIN meters \ {id}
             /\ \A m \in DOMAIN meters' : meters'[m] = meters[m]
             /\ Rows(history') = {h \in Rows(history) : h.meter_id # id}
             /\ Len(history') = Cardinality(Rows(history'))
             /\ users' = users]_vars

(* A meter with two readings has just been removed, and another meter with  *)
(* its reading is still there.                                             *)
C23_Witness ==
    /\ resp.op = "remove_meter"
    /\ resp.success
    /\ nextHistoryId - 1 - Len(history) >= 2
    /\ \E m \in DOMAIN meters : \E i \in DOMAIN history : history[i].meter_id = m

(* C24.  Every Meter row whose last_balance is not None has at least one    *)
(* BalanceHistory row.                                                     *)
C24_BalanceImpliesReading ==
    \A m \in DOMAIN meters :
        meters[m].last_balance # None =>
            \E i \in DOMAIN history : history[i].meter_id = m

(* After a meter was removed, check_balances has just given a remaining     *)
(* meter its second reading.                                               *)
C24_Witness ==
    /\ resp.op = "check_balances"
    /\ resp.success
    /\ nextMeterId - 1 > Cardinality(DOMAIN meters)
    /\ \E m \in DOMAIN meters :
          /\ meters[m].last_balance # None
          /\ Cardinality({i \in DOMAIN history : history[i].meter_id = m}) = 2

(* C25.  From one state to the next the BalanceHistory rows of a meter      *)
(* that is still there are the rows it had, in their order, followed by    *)
(* the new ones; Meter rows go only by a successful remove_meter; and      *)
(* set_min_balance, toggle_reminder, list_meters and daily_reminder leave  *)
(* balance_history as it was.                                              *)
C25_HistoryAppendOnly ==
    [][LET Readings(hs, m) == SelectSeq(hs, LAMBDA h : h.meter_id = m)
       IN /\ \A m \in DOMAIN meters \cap DOMAIN meters' :
                /\ Len(Readings(history, m)) <= Len(Readings(history', m))
                /\ SubSeq(Readings(history', m), 1, Len(Readings(history, m)))
                       = Readings(history, m)
          /\ DOMAIN meters \ DOMAIN meters' # {} =>
                resp'.op = "remove_meter" /\ resp'.success
          /\ resp'.op \in {"set_min_balance", "toggle_reminder", "list_meters",
                           "daily_reminder"} => history' = history]_vars

(* set_min_balance has just stored the threshold of a meter that has two    *)
(* readings.                                                               *)
C25_Witness ==
    /\ resp.op = "set_min_balance"
    /\ resp.success
    /\ Cardinality({i \in DOMAIN history : history[i].meter_id = resp.meter_id}) = 2

(* C26.  set_min_balance and remove_meter called with the id of a meter     *)
(* that does not exist or is another user's answer 404 and leave the       *)
(* tables as they were; and no request of a user changes or deletes the    *)
(* Meter row of another user.                                              *)
C26_ForeignMeterUntouched ==
    [][LET tg == resp'.tg
           own == IF tg \in DOMAIN users
                  THEN {m \in DOMAIN meters : meters[m].user_id = users[tg].id}
                  ELSE {}
       IN /\ (resp'.op \in {"set_min_balance", "remove_meter"}
                  /\ resp'.meter_id \notin own) =>
                /\ resp'.status = 404
                /\ ~resp'.success
                /\ UNCHANGED <<users, meters, history>>
          /\ \A m \in DOMAIN meters \ own :
                /\ m \in DOMAIN meters'
                /\ meters'[m].min_balance = meters[m].min_balance
                /\ meters'[m].user_id = meters[m].user_id]_vars

(* A user who has a row has just been refused the threshold of a meter      *)
(* that is another user's.                                                 *)
C26_Witness ==
    /\ resp.op = "set_min_balance"
    /\ resp.status = 404
    /\ resp.tg \in DOMAIN users
    /\ resp.meter_id \in DOMAIN meters
    /\ meters[resp.meter_id].user_id # users[resp.tg].id

=============================================================================
